---- MODULE Spec2Model ----
(***************************************************************************)
(* Model of the animated-image engine of e6tu1 (src/src/anim.rs): the load *)
(* entry point protocols_from_animated_bytes, the playback clock           *)
(* ImageProtocol::try_advance and the ResizeEncodeRender adapter.          *)
(*                                                                         *)
(* Time is counted in clock ticks, TicksPerMs ticks to the millisecond, so *)
(* that Duration::as_millis is a real truncation.  Frame indices are       *)
(* 0-based as in the source; the sequence element of index i is s[i + 1].  *)
(***************************************************************************)
EXTENDS Integers, Sequences, FiniteSets

VARIABLES
    handle,     \* the ImageProtocol held by the caller (kind "None": no handle yet)
    now,        \* the monotonic clock read by Instant::now(), in ticks
    bytes,      \* the bytes handed to protocols_from_animated_bytes (last call's argument)
    op,         \* the most recent call: "none", "load", "try_advance", "render", ...
    ret,        \* what that call returned, as a string
    elapsed,    \* now.duration_since(last_change) as the last try_advance saw it, in ticks
    arg,        \* the area argument of that call (resize_encode, needs_resize), else 0
    drawn,      \* <<buf>> of the frame that call rendered, <<>> if it rendered none
    fitted,     \* <<area>> of the last resize_encode on this handle, <<>> if none yet
    tried,      \* the decoders the last load handed the bytes to, in order
    since,      \* the instant at which the frame now current began to be shown
    scenario,   \* number of calls of the 50/50/50 ms scenario made so far, Off if not in it
    app,        \* struct App (app.rs); popup_state.image_protocol is its image handle
    pc,         \* where the run loop stands: "draw", "pending", "event" or "exit"
    calls,      \* what the last terminal.draw did with the image handle, in order
    stderr,     \* what the last process_pending_operations wrote with eprintln!
    loaded,     \* what load_image returned in it: "Ok", "Err", or "none" if not called
    event,      \* the event the last step handled and the state it found, if any
    origin,     \* how the post held was opened: "list", "id", or "none" if none is held
    owed        \* open-post actions made minus load_image calls run

animVars == <<handle, now, bytes, op, ret, elapsed, arg, drawn, fitted, tried, since,
             scenario>>
appVars == <<app, pc, calls, stderr, loaded, event, origin, owed>>
vars == <<handle, now, bytes, op, ret, elapsed, arg, drawn, fitted, tried, since, scenario,
          app, pc, calls, stderr, loaded, event, origin, owed>>

-----------------------------------------------------------------------------
(* Bounds of the model *)

\* longest decoded frame sequence
MaxFrames == 3
\* clock resolution: ticks per millisecond
TicksPerMs == 2

(* Program constants *)

\* anim.rs:133, the delay stored for a zero numerator
DefaultDelayMs == 100
\* anim.rs:71, unwrap_or(100)
FallbackDelayMs == 100

Ms(t) == t * TicksPerMs

\* the call instants of the concrete scenario, in milliseconds
ScenarioTimes == <<40, 60, 90, 115, 140, 170>>
ScenarioDelays == <<50, 50, 50>>
Off == 0 - 1

\* the instants at which the clock is observed: the scenario's, and one half
\* a tick short of 50 ms
Instants == {0, Ms(50) - 1} \cup {Ms(ScenarioTimes[i]) : i \in 1..Len(ScenarioTimes)}

\* the draw areas handed to resize_encode / needs_resize: Rect::default() (0)
\* and the area the image is drawn in (1)
Areas == {0, 1}

\* source durations (numerator, denominator) as Frame::delay().numer_denom_ms() gives them
DelayPairs == {<<0, 1>>, <<1, 3>>, <<3, 2>>, <<50, 1>>}
\* the durations of the inputs that are played back
PlayPairs == {<<0, 1>>, <<1, 3>>, <<50, 1>>}

-----------------------------------------------------------------------------
(* Inputs: what the decoders make of the bytes *)

\* the decoded frame sequences of length n: frame i carries pixel buffer i
FrameSeqs(n, pairs, encs) ==
    { [i \in 1..n |-> [buf |-> i, delay |-> f[i][1], encodable |-> f[i][2]]] :
        f \in [1..n -> pairs \X encs] }

AllFrameSeqs(pairs, encs) == UNION {FrameSeqs(n, pairs, encs) : n \in 0..MaxFrames}

\* format:  which decoder accepts the header ("gif", "webp", or "other")
\* collect: whether into_frames().collect_frames() succeeds
\* frames:  the frames it collects
\* still:   whether image::load_from_memory succeeds on the bytes
BytesOf(formats, pairs, encs) ==
    { b \in [format : formats \ {"other"}, collect : BOOLEAN,
             frames : AllFrameSeqs(pairs, encs), still : BOOLEAN] :
        /\ ~b.collect => b.frames = <<>>
        /\ (b.collect /\ Len(b.frames) >= 1) => b.still }
    \cup [format : formats \cap {"other"}, collect : {TRUE}, frames : {<<>>},
           still : BOOLEAN]

Formats == {"gif", "webp", "other"}
Bytes == BytesOf(Formats, DelayPairs, BOOLEAN)
\* the inputs of the playback specification: GIFs and stills whose frames encode
PlayBytes == BytesOf({"gif", "other"}, PlayPairs, {TRUE})

NoBytes == [format |-> "other", collect |-> TRUE, frames |-> <<>>, still |-> FALSE]

-----------------------------------------------------------------------------
(* ratatui_image::protocol::StatefulProtocol, as anim.rs uses it *)

\* picker.new_resize_protocol(img): a protocol that has not been encoded yet
NewResizeProtocol(buf, encodable) ==
    [buf |-> buf, encodable |-> encodable, area |-> 0, enc |-> "none"]

\* proto.resize_encode(resize, area): encodes for area; the outcome is kept in
\* the protocol, the call returns nothing
ProtoResizeEncode(p, area) ==
    [p EXCEPT !.area = area, !.enc = IF p.encodable THEN "ok" ELSE "err"]

\* proto.needs_resize(resize, area): Some(area) unless encoded for area already
ProtoNeedsResize(p, area) ==
    IF p.enc = "none" \/ p.area # area THEN "Some" ELSE "None"

-----------------------------------------------------------------------------
(* enum ImageProtocol *)

NoHandle ==
    [kind |-> "None", frames |-> <<>>, delays_ms |-> <<>>, current |-> 0,
     last_change |-> 0]

Single(p) ==
    [kind |-> "Single", frames |-> <<p>>, delays_ms |-> <<>>, current |-> 0,
     last_change |-> 0]

Animated(protocols, delays, t) ==
    [kind |-> "Animated", frames |-> protocols, delays_ms |-> delays,
     current |-> 0, last_change |-> t]

-----------------------------------------------------------------------------
(* protocols_from_animated_bytes *)

GifDecoderNew(b) == b.format = "gif"
WebPDecoderNew(b) == b.format = "webp"

\* the decoders the bytes are handed to, in the order of the if / else if
\* chain and of the <= 1 frame path after it
DecodersTriedWebPFirst(b) ==
    IF WebPDecoderNew(b) THEN <<"webp">>
    ELSE IF GifDecoderNew(b) THEN <<"webp", "gif">>
    ELSE <<"webp", "gif", "still">>
DecodersTried(b) ==
    IF GifDecoderNew(b)
    THEN IF b.collect /\ Len(b.frames) <= 1 THEN <<"gif", "still">> ELSE <<"gif">>
    ELSE IF WebPDecoderNew(b)
    THEN IF b.collect /\ Len(b.frames) <= 1 THEN <<"gif", "webp", "still">>
         ELSE <<"gif", "webp">>
    ELSE <<"gif", "webp", "still">>

\* decoder.into_frames().collect_frames()
CollectFramesLax(b) == [ok |-> TRUE, frames |-> b.frames]
CollectFrames(b) == [ok |-> b.collect, frames |-> b.frames]

\* image::load_from_memory(bytes)
LoadFromMemory(b) == b.still

\* (delay_num as f64 / delay_den as f64).round() as u64: half rounds away from 0
RoundDiv(num, den) == (2 * num + den) \div (2 * den)

ConvertDelay(num, den) ==
    IF num = 0 THEN DefaultDelayMs ELSE RoundDiv(num, den)

\* frames.len() <= 1
IsStillStrict(n) == n < 1
IsStill(n) == n <= 1

\* the body of `for frame in frames`: one protocol and one delay pushed per frame
PushFrameFront(acc, frame) ==
    [protocols |-> <<ProtoResizeEncode(NewResizeProtocol(frame.buf, frame.encodable), 0)>>
                       \o acc.protocols,
     delays_ms |-> Append(acc.delays_ms, ConvertDelay(frame.delay[1], frame.delay[2]))]
PushFrame(acc, frame) ==
    [protocols |-> Append(acc.protocols,
                          ProtoResizeEncode(NewResizeProtocol(frame.buf, frame.encodable), 0)),
     delays_ms |-> Append(acc.delays_ms, ConvertDelay(frame.delay[1], frame.delay[2]))]

RECURSIVE EncodeLoop(_, _, _)
EncodeLoop(frames, i, acc) ==
    IF i > Len(frames) THEN acc
    ELSE EncodeLoop(frames, i + 1, PushFrame(acc, frames[i]))

StillResult(b) ==
    IF LoadFromMemory(b)
    THEN [tag |-> "Ok", handle |-> Single(NewResizeProtocol(0, TRUE))]
    ELSE [tag |-> "Err", handle |-> NoHandle]

\* the value protocols_from_animated_bytes(bytes, picker) returns at instant t
ProtocolsFromAnimatedBytes(b, t) ==
    IF ~GifDecoderNew(b) /\ ~WebPDecoderNew(b) THEN StillResult(b)
    ELSE LET frames_result == CollectFrames(b) IN
         IF ~frames_result.ok THEN [tag |-> "Err", handle |-> NoHandle]
         ELSE IF IsStill(Len(frames_result.frames)) THEN StillResult(b)
         ELSE LET out == EncodeLoop(frames_result.frames, 1,
                                    [protocols |-> <<>>, delays_ms |-> <<>>])
              IN [tag |-> "Ok", handle |-> Animated(out.protocols, out.delays_ms, t)]

-----------------------------------------------------------------------------
(* ImageProtocol::try_advance *)

\* Duration::as_millis: whole milliseconds, truncated
AsMillisCeil(d) == (d + TicksPerMs - 1) \div TicksPerMs
AsMillis(d) == d \div TicksPerMs

\* delays_ms.get(current).copied().unwrap_or(100), and a lookup that reads the
\* first frame's delay for every frame
DelayAtFirst(delays, i) == IF 0 < Len(delays) THEN delays[1] ELSE FallbackDelayMs
DelayAt(delays, i) == IF i < Len(delays) THEN delays[i + 1] ELSE FallbackDelayMs

\* (*current + 1) % frames.len()
NextIndexNoWrap(current, n) == current + 1
NextIndexSkipLast(current, n) == (current + 1) % (IF n > 1 THEN n - 1 ELSE n)
NextIndex(current, n) == (current + 1) % n

\* the Animated arm once the delay has elapsed
AdvancedKeepClock(h, t) ==
    [h EXCEPT !.current = NextIndex(h.current, Len(h.frames))]
Advanced(h, t) ==
    [h EXCEPT !.current = NextIndex(h.current, Len(h.frames)), !.last_change = t]

\* the other policy: jump by the number of whole delay periods elapsed
TryAdvanceCatchUp(h, t) ==
    IF h.kind # "Animated" \/ h.frames = <<>> \/ h.delays_ms = <<>>
    THEN [handle |-> h, ret |-> "false"]
    ELSE LET delay == DelayAt(h.delays_ms, h.current)
             waited == AsMillis(t - h.last_change)
             steps == IF delay = 0 THEN 1 ELSE waited \div delay IN
         IF waited >= delay
         THEN [handle |-> [h EXCEPT !.current = (h.current + steps) % Len(h.frames),
                                    !.last_change = t],
               ret |-> "true"]
         ELSE [handle |-> h, ret |-> "false"]

\* try_advance without the is_empty() early return: an empty Animated handle
\* restarts its clock and reports a transition once the fallback delay is over
TryAdvanceUnguarded(h, t) ==
    IF h.kind # "Animated" THEN [handle |-> h, ret |-> "false"]
    ELSE LET delay == DelayAt(h.delays_ms, h.current) IN
         IF AsMillis(t - h.last_change) >= delay
         THEN [handle |-> [h EXCEPT !.current = IF h.frames = <<>> THEN 0
                                                 ELSE NextIndex(h.current, Len(h.frames)),
                                    !.last_change = t],
               ret |-> "true"]
         ELSE [handle |-> h, ret |-> "false"]

\* try_advance on handle h when Instant::now() reads t: the handle it leaves
\* and the value it returns
TryAdvanceResult(h, t) ==
    IF h.kind # "Animated" THEN [handle |-> h, ret |-> "false"]
    ELSE IF h.frames = <<>> \/ h.delays_ms = <<>> THEN [handle |-> h, ret |-> "false"]
    ELSE LET delay == DelayAt(h.delays_ms, h.current) IN
         IF AsMillis(t - h.last_change) >= delay
         THEN [handle |-> Advanced(h, t), ret |-> "true"]
         ELSE [handle |-> h, ret |-> "false"]

-----------------------------------------------------------------------------
(* impl ResizeEncodeRender for ImageProtocol *)

\* the index into frames that render / resize_encode / needs_resize and
\* current_protocol_mut use (0 for Single's only protocol)
CurrentSlot(h) == IF h.kind = "Single" THEN 0 ELSE h.current

InBounds(h) == CurrentSlot(h) < Len(h.frames)

\* the frame render hands to the terminal buffer
DrawnFirst(h) == IF Len(h.frames) > 0 THEN <<h.frames[1].buf>> ELSE <<>>
Drawn(h) == IF InBounds(h) THEN <<h.frames[CurrentSlot(h) + 1].buf>> ELSE <<>>

\* resize_encode that also rewinds playback to the first frame
ResizeEncodedRewind(h, area) ==
    [h EXCEPT !.frames[CurrentSlot(h) + 1] = ProtoResizeEncode(@, area),
              !.current = 0]

ResizeEncoded(h, area) ==
    [h EXCEPT !.frames[CurrentSlot(h) + 1] = ProtoResizeEncode(@, area)]

NeedsResizeResult(h, area) == ProtoNeedsResize(h.frames[CurrentSlot(h) + 1], area)

-----------------------------------------------------------------------------
(* The scenario monitor: counts the try_advance calls made at ScenarioTimes *)
(* on an Animated handle with ScenarioDelays constructed at instant 0       *)

ScenarioStart(r, t, old) ==
    IF r.tag # "Ok" THEN old
    ELSE IF r.handle.kind = "Animated" /\ r.handle.delays_ms = ScenarioDelays /\ t = 0
         THEN 0 ELSE Off

ScenarioStep(old, t) ==
    IF old # Off /\ old < Len(ScenarioTimes) /\ t = Ms(ScenarioTimes[old + 1])
    THEN old + 1 ELSE Off

-----------------------------------------------------------------------------
(* struct App and E6PostPopupState: Option<T> is <<>> (None) or <<x>> (Some) *)

\* E6PostPopupState::new()
E6PostPopupStateNew == [image_protocol |-> NoHandle, scroll_offset |-> 0]

\* App::new()
AppNew ==
    [state |-> "Input", input_mode |-> "TagSearch",
     tag_input |-> <<>>, tag_cursor_position |-> 0,
     id_input |-> <<>>, id_cursor_position |-> 0,
     post |-> <<>>, search_results |-> <<>>, list_state |-> <<>>,
     popup_state |-> E6PostPopupStateNew,
     error_message |-> <<>>,
     pending_search |-> FALSE, pending_fetch |-> FALSE,
     pending_load_image |-> FALSE, pending_download |-> FALSE,
     pending_open_browser |-> FALSE]

NoEvent == [key |-> "none", from |-> "none"]

\* the application as run_app finds it
AppInit ==
    /\ app = AppNew
    /\ pc = "draw"
    /\ calls = <<>>
    /\ stderr = <<>>
    /\ loaded = "none"
    /\ event = NoEvent
    /\ origin = "none"
    /\ owed = 0

-----------------------------------------------------------------------------
(* Actions *)

Init ==
    /\ handle = NoHandle
    /\ now = 0
    /\ bytes = NoBytes
    /\ op = "none"
    /\ ret = "none"
    /\ elapsed = 0
    /\ arg = 0
    /\ drawn = <<>>
    /\ fitted = <<>>
    /\ tried = <<>>
    /\ since = 0
    /\ scenario = Off
    /\ AppInit

\* time passes between two calls
Tick ==
    /\ \E t \in Instants : t > now /\ now' = t
    /\ UNCHANGED <<handle, bytes, op, ret, elapsed, arg, drawn, fitted, tried, since,
                 scenario>>
    /\ UNCHANGED appVars

\* a call of protocols_from_animated_bytes; the caller keeps the handle of Ok
Load(b) ==
    /\ LET r == ProtocolsFromAnimatedBytes(b, now) IN
         /\ handle' = IF r.tag = "Ok" THEN r.handle ELSE handle
         /\ ret' = r.tag
         /\ scenario' = ScenarioStart(r, now, scenario)
    /\ bytes' = b
    /\ op' = "load"
    /\ elapsed' = 0
    /\ arg' = 0
    /\ drawn' = <<>>
    /\ fitted' = <<>>
    /\ tried' = DecodersTried(b)
    /\ since' = now
    /\ UNCHANGED now
    /\ UNCHANGED appVars

TryAdvance ==
    /\ handle.kind # "None"
    /\ LET r == TryAdvanceResult(handle, now) IN
         /\ handle' = r.handle
         /\ ret' = r.ret
         /\ since' = IF r.ret = "true" THEN now ELSE since
    /\ op' = "try_advance"
    /\ elapsed' = IF handle.kind = "Animated" THEN now - handle.last_change ELSE 0
    /\ scenario' = ScenarioStep(scenario, now)
    /\ arg' = 0
    /\ drawn' = <<>>
    /\ UNCHANGED <<now, bytes, fitted, tried>>
    /\ UNCHANGED appVars

Render ==
    /\ handle.kind # "None"
    /\ op' = "render"
    /\ elapsed' = 0
    /\ ret' = IF InBounds(handle) THEN "unit" ELSE "panic"
    /\ arg' = 0
    /\ drawn' = Drawn(handle)
    /\ UNCHANGED <<handle, now, bytes, fitted, tried, since, scenario>>
    /\ UNCHANGED appVars

ResizeEncode(area) ==
    /\ handle.kind # "None"
    /\ InBounds(handle)
    /\ handle' = ResizeEncoded(handle, area)
    /\ op' = "resize_encode"
    /\ elapsed' = 0
    /\ ret' = "unit"
    /\ arg' = area
    /\ drawn' = <<>>
    /\ fitted' = <<area>>
    /\ UNCHANGED <<now, bytes, tried, since, scenario>>
    /\ UNCHANGED appVars

NeedsResize(area) ==
    /\ handle.kind # "None"
    /\ InBounds(handle)
    /\ op' = "needs_resize"
    /\ elapsed' = 0
    /\ ret' = NeedsResizeResult(handle, area)
    /\ arg' = area
    /\ drawn' = <<>>
    /\ UNCHANGED <<handle, now, bytes, fitted, tried, since, scenario>>
    /\ UNCHANGED appVars

\* current_protocol_mut: hands out &mut frames[current] (Single: its protocol)
CurrentProtocolMut ==
    /\ handle.kind # "None"
    /\ InBounds(handle)
    /\ op' = "current_protocol_mut"
    /\ elapsed' = 0
    /\ ret' = "unit"
    /\ arg' = 0
    /\ drawn' = <<>>
    /\ UNCHANGED <<handle, now, bytes, fitted, tried, since, scenario>>
    /\ UNCHANGED appVars

\* playback follows one handle: bytes are loaded until a load returns one
LoadPlay == handle.kind = "None" /\ \E b \in PlayBytes : Load(b)
\* the load entry point applied to the bytes at hand
LoadGiven == Load(bytes)
ResizeEncodeAny == \E a \in Areas : ResizeEncode(a)
NeedsResizeAny == \E a \in Areas : NeedsResize(a)

Next ==
    \/ LoadPlay
    \/ Tick
    \/ TryAdvance
    \/ Render
    \/ ResizeEncodeAny
    \/ NeedsResizeAny
    \/ CurrentProtocolMut

\* playback: load, then advance, draw and resize as time passes
Spec == Init /\ [][Next]_vars

\* any bytes may arrive, at any instant, before the first handle exists
InitLoad ==
    /\ handle = NoHandle
    /\ now \in Instants
    /\ bytes \in Bytes
    /\ op = "none"
    /\ ret = "none"
    /\ elapsed = 0
    /\ arg = 0
    /\ drawn = <<>>
    /\ fitted = <<>>
    /\ tried = <<>>
    /\ since = 0
    /\ scenario = Off
    /\ AppInit

NextLoad == LoadGiven

\* the load entry point over every input
SpecLoad == InitLoad /\ [][NextLoad]_vars

-----------------------------------------------------------------------------
(* Properties of the playback clock, under Spec *)

\* a step that is a call of operation o (time stands still during a call)
-----------------------------------------------------------------------------
(* The host application (app.rs): key handling *)

\* the posts the server knows: id and whether file.url is present
Posts == {[id |-> 1, has_url |-> TRUE], [id |-> 2, has_url |-> TRUE],
          [id |-> 3, has_url |-> FALSE]}

\* KeyCode values: named keys and Char(c) as the one-character string c
Chars == {"q", "d", "o", "f", "7"}
Digits == {"0", "1", "2", "3", "4", "5", "6", "7", "8", "9"}
Keys == {"Enter", "Esc", "Tab", "Up", "Down", "Left", "Right", "Backspace"}
            \cup Chars

SeqsUpTo(S, n) == UNION {[1..k -> S] : k \in 0..n}

SaturatingSub(x) == IF x = 0 THEN 0 ELSE x - 1
ScrollMax == 65535
SaturatingAddU16(x) == IF x = ScrollMax THEN x ELSE x + 1

ActiveInput(a) == IF a.input_mode = "TagSearch" THEN a.tag_input ELSE a.id_input
ActiveCursor(a) ==
    IF a.input_mode = "TagSearch" THEN a.tag_cursor_position
    ELSE a.id_cursor_position

\* clamp_cursor, and a version that lets the position through as it is
ClampCursorNone(a, pos) == pos
ClampCursor(a, pos) == IF pos > Len(ActiveInput(a)) THEN Len(ActiveInput(a)) ELSE pos

SetCursor(a, pos) ==
    IF a.input_mode = "TagSearch" THEN [a EXCEPT !.tag_cursor_position = pos]
    ELSE [a EXCEPT !.id_cursor_position = pos]

MoveCursorLeft(a) == SetCursor(a, ClampCursor(a, SaturatingSub(ActiveCursor(a))))
MoveCursorRight(a) == SetCursor(a, ClampCursor(a, ActiveCursor(a) + 1))

\* the index of the cursor's character, or the length when there is none
ByteIndex(a) ==
    IF ActiveCursor(a) < Len(ActiveInput(a)) THEN ActiveCursor(a)
    ELSE Len(ActiveInput(a))

InsertAt(s, i, c) == SubSeq(s, 1, i) \o <<c>> \o SubSeq(s, i + 1, Len(s))

EnterChar(a, c) ==
    MoveCursorRight(
        IF a.input_mode = "TagSearch"
        THEN [a EXCEPT !.tag_input = InsertAt(@, ByteIndex(a), c)]
        ELSE IF c \in Digits
             THEN [a EXCEPT !.id_input = InsertAt(@, ByteIndex(a), c)]
             ELSE a)

\* chars().take(cursor - 1) chained with chars().skip(cursor)
DeleteChar(a) ==
    IF ActiveCursor(a) = 0 THEN a
    ELSE LET cur == ActiveCursor(a)
             old == ActiveInput(a)
             new == SubSeq(old, 1, IF cur - 1 > Len(old) THEN Len(old) ELSE cur - 1)
                        \o SubSeq(old, cur + 1, Len(old)) IN
         MoveCursorLeft(
            IF a.input_mode = "TagSearch" THEN [a EXCEPT !.tag_input = new]
            ELSE [a EXCEPT !.id_input = new])

\* switch_input_mode that also rewinds the cursor of the mode it leaves
SwitchInputModeRewind(a) ==
    [SetCursor(a, 0) EXCEPT
        !.input_mode = IF @ = "TagSearch" THEN "PostId" ELSE "TagSearch"]

SwitchInputMode(a) ==
    [a EXCEPT !.input_mode = IF @ = "TagSearch" THEN "PostId" ELSE "TagSearch"]

\* handle_input_key with an Enter arm that submits whatever the input holds
HandleInputKeyNoCheck(a, k) ==
    IF k = "Enter"
    THEN IF a.input_mode = "TagSearch"
         THEN [a EXCEPT !.state = "Loading", !.pending_search = TRUE]
         ELSE [a EXCEPT !.state = "Loading", !.pending_fetch = TRUE]
    ELSE a

\* handle_input_key for every key but Char('q'), which ends the process
HandleInputKey(a, k) ==
    CASE k = "Enter" ->
            IF ActiveInput(a) = <<>> THEN a
            ELSE IF a.input_mode = "TagSearch"
                 THEN [a EXCEPT !.state = "Loading", !.pending_search = TRUE]
                 ELSE [a EXCEPT !.state = "Loading", !.pending_fetch = TRUE]
      [] k \in Chars -> EnterChar(a, k)
      [] k = "Backspace" -> DeleteChar(a)
      [] k = "Left" -> MoveCursorLeft(a)
      [] k = "Right" -> MoveCursorRight(a)
      [] k = "Tab" -> SwitchInputMode(a)
      [] k = "Esc" ->
            IF a.input_mode = "TagSearch"
            THEN [a EXCEPT !.tag_input = <<>>, !.tag_cursor_position = 0]
            ELSE [a EXCEPT !.id_input = <<>>, !.id_cursor_position = 0]
      [] OTHER -> a

\* the Enter arm of handle_search_results_key
OpenSelectedKeepImage(a) ==
    IF a.list_state # <<>> /\ a.list_state[1] < Len(a.search_results)
    THEN [a EXCEPT !.post = <<a.search_results[a.list_state[1] + 1]>>,
                   !.state = "Viewing",
                   !.popup_state.scroll_offset = 0,
                   !.pending_load_image = TRUE]
    ELSE a
OpenSelected(a) ==
    IF a.list_state # <<>> /\ a.list_state[1] < Len(a.search_results)
    THEN [a EXCEPT !.post = <<a.search_results[a.list_state[1] + 1]>>,
                   !.state = "Viewing",
                   !.popup_state = E6PostPopupStateNew,
                   !.pending_load_image = TRUE]
    ELSE a

\* handle_search_results_key with a selection that stops at both ends
HandleSearchResultsKeyClamped(a, k) ==
    CASE k \in {"q", "Esc"} ->
            [a EXCEPT !.state = "Input", !.search_results = <<>>, !.list_state = <<>>]
      [] k = "Up" ->
            [a EXCEPT !.list_state = IF @ = <<>> THEN <<0>> ELSE <<SaturatingSub(@[1])>>]
      [] k = "Down" ->
            [a EXCEPT !.list_state =
                IF @ = <<>> THEN <<0>>
                ELSE IF @[1] >= SaturatingSub(Len(a.search_results)) THEN @
                ELSE <<@[1] + 1>>]
      [] k = "Enter" -> OpenSelected(a)
      [] OTHER -> a

HandleSearchResultsKey(a, k) ==
    CASE k \in {"q", "Esc"} ->
            [a EXCEPT !.state = "Input", !.search_results = <<>>, !.list_state = <<>>]
      [] k = "Up" ->
            [a EXCEPT !.list_state =
                IF @ = <<>> THEN <<0>>
                ELSE IF @[1] > 0 THEN <<@[1] - 1>>
                ELSE <<SaturatingSub(Len(a.search_results))>>]
      [] k = "Down" ->
            [a EXCEPT !.list_state =
                IF @ = <<>> THEN <<0>>
                ELSE IF @[1] >= SaturatingSub(Len(a.search_results)) THEN <<0>>
                ELSE <<@[1] + 1>>]
      [] k = "Enter" -> OpenSelected(a)
      [] OTHER -> a

\* the q / Esc arm of handle_viewing_key
LeavePost(a) ==
    [a EXCEPT !.state = IF a.search_results = <<>> THEN "Input" ELSE "SearchResults",
              !.post = <<>>,
              !.popup_state = E6PostPopupStateNew]

HandleViewingKey(a, k) ==
    CASE k \in {"q", "Esc"} -> LeavePost(a)
      [] k = "Up" -> [a EXCEPT !.popup_state.scroll_offset = SaturatingSub(@)]
      [] k = "Down" -> [a EXCEPT !.popup_state.scroll_offset = SaturatingAddU16(@)]
      [] k = "d" -> [a EXCEPT !.pending_download = TRUE]
      [] k = "o" -> [a EXCEPT !.pending_open_browser = TRUE]
      [] k = "f" -> [a EXCEPT !.state = "FullImageView"]
      [] OTHER -> a

\* handle_full_image_key that goes back through a fresh popup state
HandleFullImageKeyFresh(a, k) ==
    IF k \in {"q", "Esc", "f"}
    THEN [a EXCEPT !.state = "Viewing", !.popup_state = E6PostPopupStateNew]
    ELSE a

HandleFullImageKey(a, k) ==
    IF k \in {"q", "Esc", "f"} THEN [a EXCEPT !.state = "Viewing"] ELSE a

\* handle_event with an Error arm that only Enter dismisses
HandleEventEnterOnly(a, k) ==
    CASE a.state = "Input" -> HandleInputKey(a, k)
      [] a.state = "Loading" -> a
      [] a.state = "SearchResults" -> HandleSearchResultsKey(a, k)
      [] a.state = "Viewing" -> HandleViewingKey(a, k)
      [] a.state = "FullImageView" -> HandleFullImageKey(a, k)
      [] a.state = "Error" ->
            IF k = "Enter" THEN [a EXCEPT !.state = "Input", !.error_message = <<>>]
            ELSE a

\* handle_event(AppEvent::Key(k))
HandleEvent(a, k) ==
    CASE a.state = "Input" -> HandleInputKey(a, k)
      [] a.state = "Loading" -> a
      [] a.state = "SearchResults" -> HandleSearchResultsKey(a, k)
      [] a.state = "Viewing" -> HandleViewingKey(a, k)
      [] a.state = "FullImageView" -> HandleFullImageKey(a, k)
      [] a.state = "Error" -> [a EXCEPT !.state = "Input", !.error_message = <<>>]

-----------------------------------------------------------------------------
(* The host application: pending operations, drawing and the run loop *)

Post(i) == CHOOSE q \in Posts : q.id = i

\* what the client's requests can come back with
SearchReplies ==
    {[ok |-> FALSE, posts |-> <<>>], [ok |-> TRUE, posts |-> <<>>],
     [ok |-> TRUE, posts |-> <<Post(1), Post(2)>>],
     [ok |-> TRUE, posts |-> <<Post(3), Post(1), Post(2)>>]}
FetchReplies ==
    {[ok |-> FALSE, post |-> <<>>]} \cup {[ok |-> TRUE, post |-> <<q>>] : q \in Posts}

\* an error report that stores the message and stays in the state it was in
WithErrorKeepState(a, msg) == [a EXCEPT !.error_message = <<msg>>]
WithError(a, msg) == [a EXCEPT !.error_message = <<msg>>, !.state = "Error"]

\* a search that shows whatever list comes back, the empty one too
StageSearchAcceptEmpty(a, r) ==
    IF ~a.pending_search THEN a
    ELSE LET b == [a EXCEPT !.pending_search = FALSE] IN
         IF ~r.ok THEN WithError(b, "Failed to search posts")
         ELSE [b EXCEPT !.search_results = r.posts, !.state = "SearchResults",
                        !.list_state = <<0>>]

\* search_posts and the pending_search block around it
StageSearch(a, r) ==
    IF ~a.pending_search THEN a
    ELSE LET b == [a EXCEPT !.pending_search = FALSE] IN
         IF ~r.ok THEN WithError(b, "Failed to search posts")
         ELSE IF r.posts = <<>> THEN WithError(b, "No posts found for this search")
         ELSE [b EXCEPT !.search_results = r.posts, !.state = "SearchResults",
                        !.list_state = <<0>>]

\* a fetch that enters the post view without storing the post
StageFetchDropPost(a, r) ==
    IF ~a.pending_fetch THEN a
    ELSE LET b == [a EXCEPT !.pending_fetch = FALSE] IN
         IF r.ok
         THEN [b EXCEPT !.state = "Viewing", !.popup_state = E6PostPopupStateNew,
                        !.pending_load_image = TRUE]
         ELSE WithError(b, "Failed to fetch post")

\* fetch_post and the pending_fetch block around it
StageFetch(a, r) ==
    IF ~a.pending_fetch THEN a
    ELSE LET b == [a EXCEPT !.pending_fetch = FALSE] IN
         IF r.ok
         THEN [b EXCEPT !.post = r.post, !.state = "Viewing",
                        !.popup_state = E6PostPopupStateNew,
                        !.pending_load_image = TRUE]
         ELSE WithError(b, "Failed to fetch post")

\* load_image runs the download only for a post that has a file url
Downloads(a) == a.post # <<>> /\ a.post[1].has_url

\* load_image variants: one that installs a handle although the download failed
LoadImageHalfBuilt(a, ok) ==
    IF Downloads(a)
    THEN [a EXCEPT !.popup_state.image_protocol =
                      Single(NewResizeProtocol(a.post[1].id, ok))]
    ELSE a
\* load_image: the image of post i is buffer i; a failed download returns early
LoadImage(a, ok) ==
    IF Downloads(a) /\ ok
    THEN [a EXCEPT !.popup_state.image_protocol =
                      Single(NewResizeProtocol(a.post[1].id, TRUE))]
    ELSE a

\* the pending_load_image block, and one that leaves the flag set
StageLoadImageKeepFlag(a, ok) ==
    IF ~a.pending_load_image THEN a ELSE LoadImage(a, ok)
StageLoadImage(a, ok) ==
    IF ~a.pending_load_image THEN a
    ELSE LoadImage([a EXCEPT !.pending_load_image = FALSE], ok)

\* what load_image returns when the pending_load_image block calls it
LoadImageReturns(a, ok) ==
    IF ~a.pending_load_image THEN "none"
    ELSE IF Downloads(a) /\ ~ok THEN "Err" ELSE "Ok"

\* what the pending_load_image block prints with eprintln!
LoadImageStderr(a, ok) ==
    IF LoadImageReturns(a, ok) = "Err" THEN <<"Failed to load image">> ELSE <<>>

StageDownload(a, ok) ==
    IF ~a.pending_download THEN a
    ELSE LET b == [a EXCEPT !.pending_download = FALSE] IN
         IF a.post # <<>> /\ ~ok THEN WithError(b, "Failed to download") ELSE b

StageOpenBrowser(a, ok) ==
    IF ~a.pending_open_browser THEN a
    ELSE LET b == [a EXCEPT !.pending_open_browser = FALSE] IN
         IF a.post # <<>> /\ ~ok THEN WithError(b, "Failed to open browser") ELSE b

\* process_pending_operations: the five blocks in their order
AfterFetch(a, rs, rf) == StageFetch(StageSearch(a, rs), rf)
ProcessPendingOperations(a, rs, rf, img, dl, br) ==
    StageOpenBrowser(StageDownload(StageLoadImage(AfterFetch(a, rs, rf), img), dl), br)

\* StatefulImage::render on a protocol: fit it to the area if needed, draw it
FittedTo(h, area) ==
    IF NeedsResizeResult(h, area) = "Some" THEN ResizeEncoded(h, area) ELSE h

PopupArea == 0
FullArea == 1

\* terminal.draw(|f| ui::render(f, app)): what it does with the image handle
Draw(a, t) ==
    LET h == a.popup_state.image_protocol IN
    IF a.state = "Viewing" /\ a.post # <<>>
    THEN IF h.kind # "None"
         THEN [app |-> [a EXCEPT !.popup_state.image_protocol = FittedTo(h, PopupArea)],
               calls |-> <<"render">>]
         ELSE [app |-> a, calls |-> <<"placeholder">>]
    ELSE IF a.state = "FullImageView" /\ a.post # <<>>
    THEN IF h.kind # "None"
         THEN [app |-> [a EXCEPT !.popup_state.image_protocol =
                            FittedTo(TryAdvanceResult(h, t).handle, FullArea)],
               calls |-> <<"try_advance", "current_protocol_mut", "render">>]
         ELSE [app |-> a, calls |-> <<"placeholder">>]
    ELSE [app |-> a, calls |-> <<>>]

\* 1 when key k opens the selected search result, else 0
Opens(a, k) ==
    IF a.state = "SearchResults" /\ k = "Enter" /\ OpenSelected(a) # a THEN 1 ELSE 0

\* the texts and scroll offsets the user is taken to produce
AppTexts == SeqsUpTo(Chars, 1)
ScrollOffsets == 0..2
WithinReach(a) ==
    /\ a.tag_input \in AppTexts
    /\ a.id_input \in AppTexts
    /\ a.popup_state.scroll_offset \in ScrollOffsets

\* a request that is not made has one (unused) reply
RepliesFor(pending, replies) ==
    IF pending THEN replies ELSE {CHOOSE r \in replies : TRUE}

AppDraw ==
    /\ pc = "draw"
    /\ LET d == Draw(app, now) IN
         /\ app' = d.app
         /\ calls' = d.calls
    /\ pc' = "pending"
    /\ event' = NoEvent
    /\ UNCHANGED <<stderr, loaded, origin, owed>>
    /\ UNCHANGED animVars

AppPending ==
    /\ pc = "pending"
    /\ \E rs \in RepliesFor(app.pending_search, SearchReplies),
          rf \in RepliesFor(app.pending_fetch, FetchReplies),
          img \in BOOLEAN,
          dl \in RepliesFor(app.pending_download, BOOLEAN),
          br \in RepliesFor(app.pending_open_browser, BOOLEAN) :
         LET mid == AfterFetch(app, rs, rf) IN
         /\ app' = ProcessPendingOperations(app, rs, rf, img, dl, br)
         /\ stderr' = LoadImageStderr(mid, img)
         /\ loaded' = LoadImageReturns(mid, img)
         /\ origin' = IF app.pending_fetch /\ rf.ok THEN "id" ELSE origin
         /\ owed' = owed + (IF app.pending_fetch /\ rf.ok THEN 1 ELSE 0)
                         - (IF mid.pending_load_image THEN 1 ELSE 0)
    /\ pc' = "event"
    /\ UNCHANGED <<calls, event>>
    /\ UNCHANGED animVars

\* EventHandler::next returned Key(k) and handle_event took it
AppKey ==
    /\ pc = "event"
    /\ \E k \in Keys :
         /\ ~(app.state = "Input" /\ k = "q")
         /\ app' = HandleEvent(app, k)
         /\ WithinReach(app')
         /\ owed' = owed + Opens(app, k)
         /\ event' = [key |-> k, from |-> app.state]
         /\ origin' = IF Opens(app, k) = 1 THEN "list"
                      ELSE IF app'.post = <<>> THEN "none" ELSE origin
    /\ pc' = "draw"
    /\ UNCHANGED <<calls, stderr, loaded>>
    /\ UNCHANGED animVars

\* EventHandler::next returned Tick
AppTick ==
    /\ pc = "event"
    /\ pc' = "draw"
    /\ event' = [key |-> "Tick", from |-> app.state]
    /\ UNCHANGED <<app, calls, stderr, loaded, origin, owed>>
    /\ UNCHANGED animVars

\* Char('q') in the Input state: std::process::exit(0)
AppExit ==
    /\ pc = "event"
    /\ app.state = "Input"
    /\ pc' = "exit"
    /\ event' = [key |-> "q", from |-> app.state]
    /\ UNCHANGED <<app, calls, stderr, loaded, origin, owed>>
    /\ UNCHANGED animVars

NextApp == AppDraw \/ AppPending \/ AppKey \/ AppTick \/ AppExit
SpecApp == Init /\ [][NextApp]_vars

\* try_advance as a function of any value of the enum: the variants' fields
\* are public, so frames and delays_ms may be empty or of different lengths
AdvanceDelays == {0, 50}
AdvanceHandles ==
    {Single(NewResizeProtocol(1, TRUE))} \cup
    UNION { { [kind |-> "Animated",
               frames |-> [i \in 1..n |-> NewResizeProtocol(i, TRUE)],
               delays_ms |-> d, current |-> c, last_change |-> 0] :
                d \in SeqsUpTo(AdvanceDelays, 2),
                c \in 0..(IF n = 0 THEN 0 ELSE n - 1) } : n \in 0..MaxFrames }

InitAdvance ==
    /\ handle \in AdvanceHandles
    /\ now \in Instants
    /\ bytes = NoBytes
    /\ op = "none"
    /\ ret = "none"
    /\ elapsed = 0
    /\ arg = 0
    /\ drawn = <<>>
    /\ fitted = <<>>
    /\ tried = <<>>
    /\ since = 0
    /\ scenario = Off
    /\ AppInit

NextAdvance == TryAdvance \/ Tick
SpecAdvance == InitAdvance /\ [][NextAdvance]_vars

\* Playback with time that never stops: try_advance reads only
\* now - last_change, so the clock is kept relative to last_change and an
\* elapsed time beyond the longest delay is kept as LiveCap
LiveSteps == {Ms(25), Ms(50)}
LiveCap == Ms(DefaultDelayMs) + 1

LiveTick ==
    /\ handle.kind # "None"
    /\ \E d \in LiveSteps :
         LET e == now - handle.last_change + d IN
         now' = IF e > LiveCap THEN LiveCap ELSE e
    /\ handle' = [handle EXCEPT !.last_change = 0]
    /\ since' = 0
    /\ UNCHANGED <<bytes, op, ret, elapsed, arg, drawn, fitted, tried, scenario>>
    /\ UNCHANGED appVars

NextLive == LoadPlay \/ LiveTick \/ TryAdvance
\* the host calls try_advance on every draw and the clock keeps running
SpecLive == Init /\ [][NextLive]_vars /\ WF_vars(TryAdvance) /\ WF_vars(LiveTick)

\* The Input state alone: any sequence of the editing keys, on inputs of up
\* to three characters
InputKeys == (Chars \ {"q"}) \cup {"Backspace", "Left", "Right", "Tab", "Esc"}
InputTexts == SeqsUpTo(Chars, 3)

InputKey ==
    /\ app.state = "Input"
    /\ \E k \in InputKeys :
         /\ app' = HandleEvent(app, k)
         /\ app'.tag_input \in InputTexts
         /\ app'.id_input \in InputTexts
         /\ event' = [key |-> k, from |-> app.state]
    /\ UNCHANGED <<pc, calls, stderr, loaded, origin, owed>>
    /\ UNCHANGED animVars

NextInput == InputKey
SpecInput == Init /\ [][NextInput]_vars

Called(o) == op' = o /\ now' = now

\* the active frame's own delay, in ticks
ActiveDelay == Ms(handle.delays_ms[handle.current + 1])

\* the return values and the indices left by the scenario's six calls
ScenarioRets == <<"false", "true", "false", "true", "false", "true">>
ScenarioIndex == <<0, 1, 1, 2, 2, 0>>

\* C1: on an Animated handle, a try_advance call made when now - last_change
\* has reached the active frame's delay moves current forward by exactly one
\* (mod frames.len()), sets last_change to now and returns true, however many
\* delay periods have gone by; so a try_advance call only ever takes the index
\* from i to (i + 1) mod n or leaves it.
C1_SingleStepAdvance ==
    [][ (Called("try_advance") /\ handle.kind = "Animated") =>
          /\ (now - handle.last_change >= ActiveDelay) =>
                /\ handle'.current = (handle.current + 1) % Len(handle.frames)
                /\ handle'.last_change = now
                /\ ret' = "true"
          /\ handle'.current \in
                {handle.current, (handle.current + 1) % Len(handle.frames)} ]_vars

\* C1 witness: a call that saw at least two whole 50 ms periods elapsed
\* returned true and left the index at 1
C1_Witness ==
    /\ op = "try_advance" /\ ret = "true"
    /\ handle.kind = "Animated"
    /\ handle.delays_ms = ScenarioDelays
    /\ elapsed >= 2 * Ms(50)
    /\ handle.current = 1

\* C2: on an Animated handle, a try_advance call made when now - last_change
\* is strictly less than the active frame's delay returns false and leaves
\* frames, delays, current and last_change as they were.
C2_NoOpBeforeDelay ==
    [][ ( /\ Called("try_advance")
          /\ handle.kind = "Animated"
          /\ now - handle.last_change < ActiveDelay ) =>
          (ret' = "false" /\ handle' = handle) ]_vars

\* C2 witness: a call half a tick short of the 50 ms delay returned false
C2_Witness ==
    /\ op = "try_advance" /\ ret = "false"
    /\ handle.kind = "Animated"
    /\ handle.delays_ms[handle.current + 1] = 50
    /\ elapsed = Ms(50) - 1

\* C3: from 3 frames with delays 50, 50, 50 ms, current 0 and last_change 0,
\* try_advance at 40, 60, 90, 115, 140, 170 ms returns false, true, false,
\* true, false, true and leaves current at 0, 1, 1, 2, 2, 0, with
\* last_change = 60 ms after the second call.
C3_Scenario ==
    scenario >= 1 =>
        /\ Len(handle.frames) = 3
        /\ handle.current = ScenarioIndex[scenario]
        /\ op = "try_advance" => ret = ScenarioRets[scenario]
        /\ scenario \in {2, 3} => handle.last_change = Ms(60)

\* C3 witness: all six calls of the scenario have been made
C3_Witness == scenario = Len(ScenarioTimes) /\ op = "try_advance" /\ now = Ms(170)

\* C4: an Animated handle's current is always below frames.len(), after
\* construction and after any try_advance, render, resize_encode and
\* needs_resize calls.
C4_CurrentInBounds ==
    handle.kind = "Animated" => handle.current < Len(handle.frames)

\* C4 witness: the index has wrapped from the last frame back to 0
C4_Witness ==
    /\ handle.kind = "Animated"
    /\ op = "try_advance" /\ ret = "true"
    /\ handle.current = 0

-----------------------------------------------------------------------------
(* Properties of the load entry point, under SpecLoad *)

\* the last call was a load and it returned an Animated handle
LoadedAnimated == op = "load" /\ ret = "Ok" /\ handle.kind = "Animated"

\* a container decoder accepted the bytes and collected their frames
Collected == bytes.format \in {"gif", "webp"} /\ bytes.collect

\* the bytes went through the per-frame preprocessing loop
Preprocessed == Collected /\ Len(bytes.frames) >= 2

\* the source duration of frame i in whole milliseconds (nearest)
WholeMs(i) == RoundDiv(bytes.frames[i].delay[1], bytes.frames[i].delay[2])

C7_AtMostOneFrameIsSingle ==
    (op = "load" /\ Collected /\ Len(bytes.frames) <= 1) =>
        (ret = "Ok" /\ handle.kind = "Single")

\* C7 (amended): an input that decodes to at most one usable frame yields a
\* Single handle when the still re-decode of the bytes succeeds and an error
\* and no handle when it fails; an Animated handle never has fewer than 2 frames.
C7_SingleOrError ==
    /\ (op = "load" /\ Collected /\ Len(bytes.frames) <= 1) =>
          IF bytes.still
          THEN ret = "Ok" /\ handle.kind = "Single"
          ELSE ret = "Err" /\ handle.kind = "None"
    /\ handle.kind = "Animated" => Len(handle.frames) >= 2

\* C7 witness: a one-frame WebP came back as a Single handle
C7_Witness ==
    /\ op = "load" /\ ret = "Ok"
    /\ bytes.format = "webp" /\ bytes.collect /\ Len(bytes.frames) = 1
    /\ handle.kind = "Single"

\* C8: when no decoder accepts the bytes, or an accepted container fails while
\* its frames are collected, the load returns an error and no handle.
C8_CorruptBytesFail ==
    ( /\ op = "load"
      /\ \/ (bytes.format = "other" /\ ~bytes.still)
         \/ (bytes.format \in {"gif", "webp"} /\ ~bytes.collect) ) =>
        (ret = "Err" /\ handle.kind = "None")

\* C8 witness: a GIF whose first image still decodes but whose frame
\* collection fails was refused
C8_Witness ==
    /\ op = "load" /\ ret = "Err"
    /\ bytes.format = "gif" /\ ~bytes.collect /\ bytes.still
    /\ handle.kind = "None"

\* C9: if the encoding of any single frame fails during preprocessing, the
\* whole load fails with an error and no handle holding a frame whose encoding
\* failed is returned.
C9_EncodeFailureAborts ==
    ( /\ op = "load"
      /\ Preprocessed
      /\ \E i \in 1..Len(bytes.frames) : ~bytes.frames[i].encodable ) =>
        /\ ret = "Err"
        /\ \A i \in 1..Len(handle.frames) : handle.frames[i].enc # "err"

\* C10: the preprocessor produces exactly one (protocol, delay) pair per
\* decoded frame, and the i-th pair comes from the i-th decoded frame.
C10_OrderPreserved ==
    LoadedAnimated =>
        /\ Len(handle.frames) = Len(bytes.frames)
        /\ Len(handle.delays_ms) = Len(bytes.frames)
        /\ \A i \in 1..Len(bytes.frames) :
              /\ handle.frames[i].buf = bytes.frames[i].buf
              /\ handle.delays_ms[i] =
                    ConvertDelay(bytes.frames[i].delay[1], bytes.frames[i].delay[2])

\* C10 witness: three frames with three different durations were loaded
C10_Witness ==
    /\ LoadedAnimated
    /\ Len(bytes.frames) = 3
    /\ Cardinality({bytes.frames[i].delay : i \in 1..3}) = 3

-----------------------------------------------------------------------------
(* Rendering and resizing: C11, C13 - C16 *)

IsAnimated == handle.kind = "Animated"

\* C11: rendering an Animated handle draws frames[current_index] only and
\* never advances playback: the render call leaves current_index and
\* last_transition (the whole handle) unchanged.
C11_RenderDrawsCurrent ==
    [][(Called("render") /\ IsAnimated /\ InBounds(handle)) =>
          /\ drawn' = <<handle.frames[handle.current + 1].buf>>
          /\ handle' = handle]_vars

\* C11 witness: the third frame of a three-frame animation was rendered
C11_Witness ==
    /\ op = "render"
    /\ IsAnimated
    /\ Len(handle.frames) = 3
    /\ handle.current = 2
    /\ drawn = <<handle.frames[3].buf>>
    /\ drawn # <<handle.frames[1].buf>>

\* C13: resize_encode on an Animated handle re-encodes every stored frame for
\* the new target size, not only the frame at current_index.
C13_ResizeEncodesEveryFrame ==
    [][(Called("resize_encode") /\ IsAnimated) =>
          \A i \in 1..Len(handle'.frames) :
              /\ handle'.frames[i].area = arg'
              /\ handle'.frames[i].enc = "ok"]_vars

\* C14: after resize_encode(s) on a handle, a later needs_resize(s) returns
\* None and needs_resize(d) for d different from the size last fitted
\* returns Some(d).
C14_NeedsResizeAfterFit ==
    [][(Called("needs_resize") /\ fitted # <<>>) =>
          ret' = IF arg' = fitted[1] THEN "None" ELSE "Some"]_vars

\* C15: needs_resize on an Animated handle consults only the first frame
\* (index 0), so its answer does not depend on current_index.
C15_NeedsResizeFirstFrame ==
    [][(Called("needs_resize") /\ IsAnimated) =>
          ret' = ProtoNeedsResize(handle.frames[1], arg')]_vars

\* C16: render, resize_encode, needs_resize and current_protocol_mut all
\* leave current_index, last_transition and the delays sequence unchanged.
C16_OnlyTryAdvanceMoves ==
    [][(\E o \in {"render", "resize_encode", "needs_resize",
                  "current_protocol_mut"} : Called(o)) =>
          /\ handle'.current = handle.current
          /\ handle'.last_change = handle.last_change
          /\ handle'.delays_ms = handle.delays_ms]_vars

\* C16 witness: resize_encode was called on an animation that had advanced
C16_Witness ==
    /\ op = "resize_encode"
    /\ IsAnimated
    /\ handle.current >= 1
    /\ handle.last_change > 0
    /\ handle.frames[handle.current + 1].enc = "ok"

\* C17: try_advance on an Animated handle whose frame list is empty, and on
\* any Single handle, returns false and changes nothing, at every time now.
C17_EmptyOrSingleNoOp ==
    [][(Called("try_advance") /\
          (handle.kind = "Single" \/ (IsAnimated /\ handle.frames = <<>>))) =>
          /\ ret' = "false"
          /\ handle' = handle]_vars

\* C17 witness: try_advance was called on an Animated handle with no frames
\* but with delays, after more than the delay it would read had passed
C17_Witness ==
    /\ op = "try_advance"
    /\ IsAnimated
    /\ handle.frames = <<>>
    /\ handle.delays_ms # <<>>
    /\ AsMillis(elapsed) >= DelayAt(handle.delays_ms, handle.current)
    /\ elapsed > 0
    /\ ret = "false"

-----------------------------------------------------------------------------
(* The host application: C12, C18 - C20 *)

Image == app.popup_state.image_protocol
ShowsImage == \E i \in 1..Len(calls) : calls[i] = "render"

\* C12: on every refresh in which the host displays an image handle, it calls
\* try_advance exactly once and then render, in that order, in the post popup
\* view and in the full-image view.
C12_AdvanceThenRender ==
    ShowsImage =>
        /\ Cardinality({i \in 1..Len(calls) : calls[i] = "try_advance"}) = 1
        /\ \E i, j \in 1..Len(calls) :
              i < j /\ calls[i] = "try_advance" /\ calls[j] = "render"

\* C18: each open-post action causes exactly one image load: the pending-load
\* flag is set once per action and cleared when the load runs, every open has
\* had its load by the time the next event is read, and no load runs without
\* an open before it.
C18_OneLoadPerOpen ==
    /\ owed = IF app.pending_load_image THEN 1 ELSE 0
    /\ pc = "event" => owed = 0

\* C18 witness: the load for a post opened from the search results has run
C18_Witness ==
    /\ pc = "event"
    /\ loaded = "Ok"
    /\ app.state = "Viewing"
    /\ app.search_results # <<>>
    /\ Image.kind = "Single"
    /\ owed = 0

Opened == app.state \in {"SearchResults", "Loading"} /\ app'.state = "Viewing"
Left == app.state = "Viewing" /\ app'.state \in {"Input", "SearchResults"}
FreshImage(a) == Single(NewResizeProtocol(a.post[1].id, TRUE))

\* C19: the stored handle never belongs to a post other than the one the
\* application holds; leaving the post view discards it, and opening a post
\* leaves it absent unless the load for that post has completed.
C19_HandleOfCurrentPost ==
    /\ [](Image.kind # "None" =>
            /\ app.post # <<>>
            /\ Image.frames[1].buf = app.post[1].id)
    /\ [][/\ Left => app'.popup_state.image_protocol = NoHandle
          /\ Opened => \/ app'.popup_state.image_protocol = NoHandle
                       \/ /\ loaded' = "Ok"
                          /\ app'.popup_state.image_protocol = FreshImage(app')]_vars

\* C19 witness: the second search result was opened and its load has not run
C19_Witness ==
    /\ app.state = "Viewing"
    /\ app.pending_load_image
    /\ Image = NoHandle
    /\ app.post # <<>>
    /\ app.post[1].id = 2
    /\ app.search_results = <<Post(1), Post(2)>>
    /\ app.list_state = <<1>>
    /\ pc = "draw"

\* C20: when the load of the image fails, the host writes an error message,
\* the stored handle is what it was before the load, and the view shows the
\* placeholder.
C20_FailedLoadKeepsHandle ==
    [][/\ (pc = "pending" /\ loaded' = "Err") =>
             /\ stderr' = <<"Failed to load image">>
             /\ app'.popup_state.image_protocol =
                    IF app.pending_fetch THEN NoHandle ELSE Image
             /\ ~app'.pending_load_image
       /\ (pc = "draw" /\ loaded = "Err"
             /\ app.state \in {"Viewing", "FullImageView"}) =>
             calls' = <<"placeholder">>]_vars

\* C20 witness: the load failed and the popup view drew the placeholder
C20_Witness ==
    /\ loaded = "Err"
    /\ stderr # <<>>
    /\ pc = "pending"
    /\ app.state = "Viewing"
    /\ calls = <<"placeholder">>
    /\ Image = NoHandle

-----------------------------------------------------------------------------
(* Decoder order: C21 *)

\* C21: the bytes go to the GIF decoder first and to the WebP decoder only
\* when the GIF decoder rejected them; the generic still-image decode is the
\* primary path exactly when neither container decoder accepts the bytes.
C21_DecoderOrder ==
    op = "load" =>
        /\ tried # <<>> /\ tried[1] = "gif"
        /\ GifDecoderNew(bytes) => \A i \in 1..Len(tried) : tried[i] # "webp"
        /\ ~GifDecoderNew(bytes) => Len(tried) >= 2 /\ tried[2] = "webp"
        /\ (tried = <<"gif", "webp", "still">> /\ ret = StillResult(bytes).tag
              /\ ~WebPDecoderNew(bytes))
             <=> (~GifDecoderNew(bytes) /\ ~WebPDecoderNew(bytes))

\* C21 witness: an animated WebP was loaded after the GIF decoder rejected it
C21_Witness ==
    /\ op = "load"
    /\ ret = "Ok"
    /\ bytes.format = "webp"
    /\ handle.kind = "Animated"
    /\ tried = <<"gif", "webp">>

-----------------------------------------------------------------------------
(* Key handling: C22 - C27 *)

\* handle_event took a key in the application state st
KeyIn(st) == pc = "event" /\ pc' = "draw" /\ app.state = st /\ event'.key \in Keys
NoPending(a) ==
    /\ ~a.pending_search /\ ~a.pending_fetch /\ ~a.pending_load_image
    /\ ~a.pending_download /\ ~a.pending_open_browser

\* C22: in the Error state any key press moves the application to the Input
\* state and clears error_message, whatever the key and whatever state
\* preceded the error.
C22_AnyKeyLeavesError ==
    [][KeyIn("Error") =>
          /\ app'.state = "Input"
          /\ app'.error_message = <<>>]_vars

\* C22 witness: an error raised from the post view (the post is still held)
\* was dismissed with a key that no other state gives that meaning
C22_Witness ==
    /\ event.from = "Error"
    /\ event.key = "Left"
    /\ app.state = "Input"
    /\ app.post # <<>>
    /\ app.error_message = <<>>

\* C23: in the Input state Enter submits only a non-empty active input: a
\* non-empty tag input in TagSearch mode enters Loading and schedules exactly
\* a search, a non-empty id input in PostId mode enters Loading and schedules
\* exactly a fetch, and an empty active input changes nothing.
C23_EnterSubmitsNonEmpty ==
    [][(KeyIn("Input") /\ event'.key = "Enter") =>
          IF ActiveInput(app) = <<>> THEN app' = app
          ELSE /\ app'.state = "Loading"
               /\ app'.pending_search = (app.input_mode = "TagSearch")
               /\ app'.pending_fetch = (app.input_mode = "PostId")
               /\ ~app'.pending_load_image
               /\ ~app'.pending_download
               /\ ~app'.pending_open_browser]_vars

\* C23 witness: Enter on a non-empty id input scheduled a fetch
C23_Witness ==
    /\ event.from = "Input"
    /\ event.key = "Enter"
    /\ app.state = "Loading"
    /\ app.input_mode = "PostId"
    /\ app.id_input # <<>>
    /\ app.pending_fetch
    /\ ~app.pending_search

\* C24: in the SearchResults state Up from index 0 selects the last result,
\* Down from the last result selects index 0, otherwise the selection moves
\* by exactly one; q / Esc returns to Input and clears results and selection.
C24_CyclicSelection ==
    [][(KeyIn("SearchResults") /\ app.list_state # <<>>) =>
          LET i == app.list_state[1]
              n == Len(app.search_results) IN
          /\ event'.key = "Up" =>
                app'.list_state = <<IF i = 0 THEN n - 1 ELSE i - 1>>
          /\ event'.key = "Down" =>
                app'.list_state = <<IF i = n - 1 THEN 0 ELSE i + 1>>
          /\ event'.key \in {"Up", "Down"} =>
                /\ app'.state = "SearchResults"
                /\ app'.search_results = app.search_results
          /\ event'.key \in {"q", "Esc"} =>
                /\ app'.state = "Input"
                /\ app'.search_results = <<>>
                /\ app'.list_state = <<>>]_vars

\* C24 witness: Up from the first of three results selected the last one
C24_Witness ==
    /\ event.from = "SearchResults"
    /\ event.key = "Up"
    /\ Len(app.search_results) = 3
    /\ app.list_state = <<2>>
    /\ pc = "draw"
    /\ calls = <<>>
    /\ loaded = "none"

\* C25: in the Viewing state q / Esc drops the current post and resets the
\* popup state (image handle absent, scroll offset 0), returning to
\* SearchResults when the post was opened from a search result list and to
\* Input when it was opened by post ID.
C25_BackFromPost ==
    [][(KeyIn("Viewing") /\ event'.key \in {"q", "Esc"}) =>
          /\ app'.post = <<>>
          /\ app'.popup_state = E6PostPopupStateNew
          /\ app'.state = IF origin = "list" THEN "SearchResults" ELSE "Input"]_vars

\* C26: in the Input state Esc empties the active input and resets its
\* cursor to 0 and leaves the other input, the other cursor, the input mode
\* and the application state unchanged; Tab toggles the input mode and
\* changes neither input nor either cursor.
C26_ClearAndSwitch ==
    [][KeyIn("Input") =>
          /\ event'.key = "Esc" =>
                app' = IF app.input_mode = "TagSearch"
                       THEN [app EXCEPT !.tag_input = <<>>, !.tag_cursor_position = 0]
                       ELSE [app EXCEPT !.id_input = <<>>, !.id_cursor_position = 0]
          /\ event'.key = "Tab" =>
                /\ app'.input_mode # app.input_mode
                /\ app'.input_mode \in {"TagSearch", "PostId"}
                /\ app' = [app EXCEPT !.input_mode = app'.input_mode]]_vars

\* C26 witness: Esc cleared the tag input while the id input kept its text
C26_Witness ==
    /\ event.from = "Input"
    /\ event.key = "Esc"
    /\ app.state = "Input"
    /\ app.input_mode = "TagSearch"
    /\ app.tag_input = <<>>
    /\ app.tag_cursor_position = 0
    /\ app.id_input # <<>>
    /\ app.id_cursor_position = 1

\* C27: f in the Viewing state enters the full-image view and f, q or Esc
\* leaves it for Viewing, changing nothing but the state; no other key leaves
\* it, and while it is shown the post, the image, the scroll offset and the
\* search results stay what they were.
C27_FullImageRoundTrip ==
    [][/\ (KeyIn("Viewing") /\ event'.key = "f") =>
             app' = [app EXCEPT !.state = "FullImageView"]
       /\ KeyIn("FullImageView") =>
             app' = IF event'.key \in {"f", "q", "Esc"}
                    THEN [app EXCEPT !.state = "Viewing"] ELSE app
       /\ app.state = "FullImageView" =>
             /\ app'.state \in {"FullImageView", "Viewing"}
             /\ app'.post = app.post
             /\ app'.search_results = app.search_results
             /\ app'.popup_state.scroll_offset = app.popup_state.scroll_offset
             /\ app'.popup_state.image_protocol.kind = Image.kind
             /\ Image.kind # "None" =>
                   app'.popup_state.image_protocol.frames[1].buf = Image.frames[1].buf]_vars

\* C27 witness: q left the full-image view in which a scrolled post's image
\* had been drawn
C27_Witness ==
    /\ event.from = "FullImageView"
    /\ event.key = "q"
    /\ app.state = "Viewing"
    /\ app.post # <<>>
    /\ app.popup_state.scroll_offset = 2
    /\ Image.kind = "Single"
    /\ Image.frames[1].area = FullArea
    /\ Image.frames[1].enc = "ok"

\* C30: whenever the application state is Viewing or FullImageView a current
\* post is held.
C30_ViewingHoldsPost ==
    app.state \in {"Viewing", "FullImageView"} => app.post # <<>>

\* C30 witness: the full-image view of a post fetched by id
C30_Witness ==
    /\ app.state = "FullImageView"
    /\ origin = "id"
    /\ app.post # <<>>
    /\ app.search_results = <<>>
    /\ event.key = "f"

-----------------------------------------------------------------------------
(* Dwell time and progress: C28, C29 *)

\* C28: every frame of an Animated handle is displayed for at least its own
\* delay: a try_advance that leaves frame i was called at least delays[i]
\* after the instant frame i became current (construction, for frame 0).
C28_DwellAtLeastDelay ==
    [][(Called("try_advance") /\ IsAnimated /\ ret' = "true") =>
          now - since >= Ms(handle.delays_ms[handle.current + 1])]_vars

\* C28 witness: the second frame, with a 100 ms delay, was left for the third
\* at an instant later than the one it was entered at
C28_Witness ==
    /\ op = "try_advance" /\ ret = "true"
    /\ IsAnimated
    /\ handle.current = 2
    /\ handle.delays_ms[2] = 100
    /\ elapsed >= Ms(100)
    /\ since = now
    /\ since > Ms(100)

\* C29: if the host keeps calling try_advance on an Animated handle and time
\* keeps increasing, every frame index 0..frames.len()-1 becomes the current
\* index again and again.
C29_EveryFrameRecurs ==
    \A i \in 0..(MaxFrames - 1) :
        [](IsAnimated /\ i < Len(handle.frames) => <>(handle.current = i))

\* C29 witness: playback of three frames came round to the first frame again
C29_Witness ==
    /\ op = "try_advance" /\ ret = "true"
    /\ IsAnimated
    /\ Len(handle.frames) = 3
    /\ handle.current = 0
    /\ now = LiveCap
    /\ handle.delays_ms[3] = 100

-----------------------------------------------------------------------------
(* Application invariants: C31, C32 *)

\* C31: whenever the application state is SearchResults the result list is
\* non-empty and the list selection is Some(i) with i < search_results.len().
C31_SelectionValid ==
    app.state = "SearchResults" =>
        /\ app.search_results # <<>>
        /\ app.list_state # <<>>
        /\ app.list_state[1] >= 0
        /\ app.list_state[1] < Len(app.search_results)

\* C31 witness: back in the result list from a post, the last of three
\* results selected
C31_Witness ==
    /\ app.state = "SearchResults"
    /\ event.from = "Viewing"
    /\ event.key = "Esc"
    /\ Len(app.search_results) = 3
    /\ app.list_state = <<2>>

\* C32: error_message is present if and only if the application state is
\* Error.
C32_MessageIffError ==
    (app.error_message # <<>>) <=> (app.state = "Error")

\* C32 witness: a failed download put the post view into the Error state
C32_Witness ==
    /\ app.state = "Error"
    /\ app.error_message = <<"Failed to download">>
    /\ app.post # <<>>
    /\ pc = "event"

-----------------------------------------------------------------------------
(* Text input: C33 *)

\* C33: after any sequence of Char, Backspace, Left, Right, Tab and Esc keys
\* in the Input state, each input's cursor position is between 0 and the
\* number of characters of that input, and id_input holds only ASCII digits.
C33_CursorsWithinInputs ==
    /\ app.tag_cursor_position >= 0
    /\ app.tag_cursor_position <= Len(app.tag_input)
    /\ app.id_cursor_position >= 0
    /\ app.id_cursor_position <= Len(app.id_input)
    /\ \A i \in 1..Len(app.id_input) : app.id_input[i] \in Digits

\* C33 witness: a letter typed in PostId mode was refused with the cursor in
\* the middle of a two-digit id, while the tag input holds letters
C33_Witness ==
    /\ app.input_mode = "PostId"
    /\ event.key = "d"
    /\ app.id_input = <<"7", "7">>
    /\ app.id_cursor_position = 2
    /\ Len(app.tag_input) = 3
    /\ app.tag_cursor_position = 1

====
